---- MODULE Spec2Model ----
(***************************************************************************)
(* Red-flag detection engine of HYDRA-DILIGENSE.                           *)
(*                                                                         *)
(*   - chunkText         (LLM analyzer)  : SpecChunk                       *)
(*   - analyzeWithLLM / analyzeChunk / callLLM : SpecLLM, SpecLLMFair      *)
(*   - analyzeWithRules and the rule catalog   : SpecRules, SpecRulesFair  *)
(*   - the rules built from catalog literals, on characters : SpecScan     *)
(*   - fuzzyPattern on the catalog terms       : SpecFuzzy                 *)
(*   - generateId                              : SpecIds                   *)
(*                                                                         *)
(* Strings are sequences of one-character strings, so that length, split,  *)
(* join and parseInt are computed character by character.                  *)
(***************************************************************************)
EXTENDS Integers, Sequences, FiniteSets, TLC

VARIABLES
    \* ---- chunkText(text, maxChars) ----
    cText,      \* argument text
    cMax,       \* argument maxChars
    cOut,       \* returned segments
    cPc,        \* "called" | "returned"
    \* ---- analyzeWithLLM(text) ----
    lText,      \* argument text
    lSdk,       \* what import('z-ai-web-dev-sdk') / ZAI.create() gives in this process
    lPc,        \* position of the async function
    lChunks,    \* const chunks
    lI,         \* loop variable i (0-based, as in the source)
    allFlags,   \* const allFlags
    pending,    \* completion calls started at the backend and not yet settled
    lRet,       \* the list analyzeWithLLM resolved with
    lLog,       \* history: what happened, in order
    lOutcome,   \* history: per analysed chunk, how its backend call ended for the program
    \* ---- analyzeWithRules(text) ----
    rDoc,       \* argument text, as the occurrences the rules' patterns find in it
    rYear,      \* new Date().getFullYear() during the run
    rPc,        \* "running" | "done" (resolved) | "failed" (rejected)
    rN,         \* number of the next rule to run, 1..12 in the order of lines 484-495
    flags,      \* const flags
    rRet,       \* the list analyzeWithRules resolved with
    rRun,       \* 1 during the first call on the text, 2 during a second call on it
    rFirst,     \* history: the list the first call resolved with
    \* ---- generateId() (both analyzers) ----
    now,        \* Date.now() of the process, in ms
    ids,        \* history: the ids given to the findings created so far, in order
    \* ---- the pattern-matching rules on a text of characters ----
    tText,      \* argument text
    tPc,        \* "scanning" | "done"
    tN,         \* position in the order of the scanned rules
    tFlags,     \* the findings pushed so far, each with the span it was matched on
    \* ---- fuzzyPattern(term) applied to one writing of the term ----
    fTerm,      \* the catalog term
    fForm,      \* how the text writes it
    fPc,        \* "built" | "tested"
    fMatched    \* result of new RegExp(fuzzyPattern(term), 'i').test(text)

cvars == <<cText, cMax, cOut, cPc>>
lvars == <<lText, lSdk, lPc, lChunks, lI, allFlags, pending, lRet, lLog, lOutcome>>
rvars == <<rDoc, rYear, rPc, rN, flags, rRet, rRun, rFirst>>
ivars == <<now, ids>>
tvars == <<tText, tPc, tN, tFlags>>
fvars == <<fTerm, fForm, fPc, fMatched>>
vars  == <<cText, cMax, cOut, cPc,
           lText, lSdk, lPc, lChunks, lI, allFlags, pending, lRet, lLog, lOutcome,
           rDoc, rYear, rPc, rN, flags, rRet, rRun, rFirst,
           now, ids, tText, tPc, tN, tFlags, fTerm, fForm, fPc, fMatched>>

NL == "\n"

\* JavaScript Math.min / Math.max on integers
Min(a, b) == IF a <= b THEN a ELSE b
Max(a, b) == IF a >= b THEN a ELSE b

RECURSIVE Concat(_)
\* Array.prototype.push(...xs) over a list of lists, in order
Concat(ss) == IF ss = <<>> THEN <<>> ELSE Head(ss) \o Concat(Tail(ss))

(***************************************************************************)
(* Component values while another component is being checked.              *)
(***************************************************************************)
ChunkIdle ==
    /\ cText = <<>> /\ cMax = 0 /\ cOut = <<>> /\ cPc = "idle"

LLMIdle ==
    /\ lText = <<>> /\ lSdk = "ok" /\ lPc = "idle" /\ lChunks = <<>> /\ lI = 0
    /\ allFlags = <<>> /\ pending = {} /\ lRet = <<>> /\ lLog = <<>> /\ lOutcome = <<>>

RulesIdle ==
    /\ rDoc = <<>> /\ rYear = 0 /\ rPc = "idle" /\ rN = 0 /\ flags = <<>> /\ rRet = <<>>
    /\ rRun = 0 /\ rFirst = <<>>

IdsIdle ==
    /\ now = 0 /\ ids = <<>>

ScanIdle ==
    /\ tText = <<>> /\ tPc = "idle" /\ tN = 0 /\ tFlags = <<>>

FuzzyIdle ==
    /\ fTerm = "" /\ fForm = "" /\ fPc = "idle" /\ fMatched = FALSE

(***************************************************************************)
(* chunkText                                                               *)
(***************************************************************************)
\* Bounds of the chunker's inputs
MaxTextLen == 5
MaxChunkChars == 3

Chars == {"a", "b", NL}

Texts(n) == UNION {[1..k -> Chars] : k \in 0..n}

\* index of the first "\n\n" in s at or after position i, 0 when there is none
RECURSIVE IndexOfSep(_, _)
IndexOfSep(s, i) ==
    IF i + 1 > Len(s) THEN 0
    ELSE IF s[i] = NL /\ s[i + 1] = NL THEN i
    ELSE IndexOfSep(s, i + 1)

\* String.prototype.split('\n\n'): the pieces between the separators found left
\* to right, empty pieces included
RECURSIVE Split(_)
Split(s) ==
    LET k == IndexOfSep(s, 1) IN
    IF k = 0 THEN <<s>>
    ELSE <<SubSeq(s, 1, k - 1)>> \o Split(SubSeq(s, k + 2, Len(s)))

\* Array.prototype.join('\n\n')
RECURSIVE Join(_)
Join(segs) ==
    IF segs = <<>> THEN <<>>
    ELSE IF Len(segs) = 1 THEN segs[1]
    ELSE segs[1] \o <<NL, NL>> \o Join(Tail(segs))

\* one iteration of `for (const para of paragraphs)`; st = [chunks, cur]
ChunkStep(st, para, maxChars) ==
    IF Len(st.cur) + Len(para) > maxChars
    THEN [chunks |-> IF st.cur # <<>> THEN Append(st.chunks, st.cur) ELSE st.chunks,
          cur    |-> para]
    ELSE [chunks |-> st.chunks,
          cur    |-> IF st.cur # <<>> THEN st.cur \o <<NL, NL>> \o para ELSE para]

RECURSIVE ChunkLoop(_, _, _)
ChunkLoop(st, paras, maxChars) ==
    IF paras = <<>> THEN st
    ELSE ChunkLoop(ChunkStep(st, Head(paras), maxChars), Tail(paras), maxChars)

chunkText(text, maxChars) ==
    IF Len(text) <= maxChars THEN <<text>>
    ELSE LET st == ChunkLoop([chunks |-> <<>>, cur |-> <<>>], Split(text), maxChars)
         IN  IF st.cur # <<>> THEN Append(st.chunks, st.cur) ELSE st.chunks

ChunkInit ==
    /\ cText \in Texts(MaxTextLen)
    /\ cMax \in 1..MaxChunkChars
    /\ cOut = <<>>
    /\ cPc = "called"
    /\ LLMIdle /\ RulesIdle /\ IdsIdle /\ ScanIdle /\ FuzzyIdle

ChunkReturn ==
    /\ cPc = "called"
    /\ cOut' = chunkText(cText, cMax)
    /\ cPc' = "returned"
    /\ UNCHANGED <<cText, cMax>>
    /\ UNCHANGED <<lvars, rvars, ivars, tvars, fvars>>

ChunkNext == ChunkReturn

SpecChunk == ChunkInit /\ [][ChunkNext]_vars

\* C9: joining the segments chunk(text, maxChars) returns with "\n\n" gives back
\* exactly the text, whatever separators the text starts with, ends with or repeats.
C9_Reconstruction ==
    cPc = "returned" => Join(cOut) = cText

\* a segment that is one single paragraph: it holds no paragraph separator
SingleParagraph(seg) == IndexOfSep(seg, 1) = 0

\* C10: every returned segment is at most maxChars long, separators included,
\* unless it is one single paragraph that is itself longer than maxChars.
C10_SegmentBound ==
    cPc = "returned" =>
        \A k \in 1..Len(cOut) :
            \/ Len(cOut[k]) <= cMax
            \/ SingleParagraph(cOut[k])

(***************************************************************************)
(* analyzeChunk: normalising the items the backend returned                *)
(***************************************************************************)
Severities == {"CRITICAL", "HIGH", "MEDIUM", "LOW"}

Categories == {"jurisdiction", "financial", "legal", "operational", "compliance",
               "vague_language", "missing_info", "liability",
               "intellectual_property", "tax", "employee", "customer", "other"}

\* a property the parsed object does not have
Undefined == "undefined"

\* JavaScript truthiness of a string-or-undefined property
Truthy(v) == v # Undefined /\ v # ""

DigitChars == {"0", "1", "2", "3", "4", "5", "6", "7", "8", "9"}

DigitVal(c) ==
    CASE c = "0" -> 0 [] c = "1" -> 1 [] c = "2" -> 2 [] c = "3" -> 3 [] c = "4" -> 4
      [] c = "5" -> 5 [] c = "6" -> 6 [] c = "7" -> 7 [] c = "8" -> 8 [] c = "9" -> 9

\* String(undefined)
UndefinedStr == <<"u", "n", "d", "e", "f", "i", "n", "e", "d">>

RECURSIVE SkipSpaces(_)
SkipSpaces(s) ==
    IF s # <<>> /\ Head(s) \in {" ", NL} THEN SkipSpaces(Tail(s)) ELSE s

\* the value of the longest prefix of decimal digits of s, given the value acc
\* of the digits read so far
RECURSIVE DigitsValue(_, _)
DigitsValue(s, acc) ==
    IF s # <<>> /\ Head(s) \in DigitChars
    THEN DigitsValue(Tail(s), 10 * acc + DigitVal(Head(s)))
    ELSE acc

\* parseInt(v), v given as String(v): leading white space is skipped, one sign is
\* read, then the longest run of digits; no digit there gives NaN
parseInt(str) ==
    LET s    == SkipSpaces(str)
        neg  == s # <<>> /\ Head(s) = "-"
        body == IF s # <<>> /\ Head(s) \in {"-", "+"} THEN Tail(s) ELSE s
    IN  IF body = <<>> \/ Head(body) \notin DigitChars
        THEN [nan |-> TRUE, val |-> 0]
        ELSE [nan |-> FALSE,
              val |-> IF neg THEN 0 - DigitsValue(body, 0) ELSE DigitsValue(body, 0)]

\* `parseInt(item.score) || 5`: NaN and 0 are both falsy
ScoreOrDefault(str) ==
    LET p == parseInt(str) IN IF p.nan \/ p.val = 0 THEN 5 ELSE p.val

\* Math.min(10, Math.max(1, parseInt(item.score) || 5))
NormalizeScore(str) == Min(10, Max(1, ScoreOrDefault(str)))

\* item.category || 'other'
NormalizeCategory(c) == IF Truthy(c) THEN c ELSE "other"

\* item.severity || 'MEDIUM'
NormalizeSeverity(s) == IF Truthy(s) THEN s ELSE "MEDIUM"

\* An element of the parsed array: a JSON object with these properties (score as
\* String(score)), or null. Reading a property of null throws.
Item(cat, sev, score) ==
    [isNull |-> FALSE, category |-> cat, severity |-> sev, score |-> score]

NullItem == [isNull |-> TRUE, category |-> Undefined, severity |-> Undefined,
             score |-> UndefinedStr]

\* the object literal pushed for one item; chunk and item are history fields
\* (which chunk and which returned item the finding was made from)
MakeFlag(item, chunkIndex) ==
    [category |-> NormalizeCategory(item.category),
     severity |-> NormalizeSeverity(item.severity),
     score    |-> NormalizeScore(item.score),
     source   |-> "llm_analyzer",
     chunk    |-> chunkIndex,
     item     |-> item]

\* `for (const item of flagsArray) { try { flags.push({...}) } catch { } }`
RECURSIVE ConvertItems(_, _)
ConvertItems(items, chunkIndex) ==
    IF items = <<>> THEN <<>>
    ELSE (IF Head(items).isNull THEN <<>> ELSE <<MakeFlag(Head(items), chunkIndex)>>)
         \o ConvertItems(Tail(items), chunkIndex)

(***************************************************************************)
(* callLLM: from the backend's answer to the parsed value                  *)
(*                                                                         *)
(* A text the backend returns is [wrap, body]: what surrounds the payload  *)
(* ("bare": nothing, "fenced": a ``` block, "prose": words without         *)
(* brackets) and the payload itself, body = [t, items]:                    *)
(*   "array"       a JSON array of the items                               *)
(*   "flagsObject" {"flags": [items]}                                      *)
(*   "object"      one JSON object (items = <<it>>), no bracket inside     *)
(*   "scalar"      null, a number or a string                              *)
(*   "garbage"     no JSON at all                                          *)
(*   "empty"       the empty string                                        *)
(*   "envelope"    JSON.stringify of the completion object itself          *)
(***************************************************************************)
Body(t, items) == [t |-> t, items |-> items]
Text(wrap, body) == [wrap |-> wrap, body |-> body]

EmptyArray == Body("array", <<>>)
EmptyText == Text("bare", Body("empty", <<>>))
NoText == Text("none", Body("none", <<>>))

\* an object that has none of the properties of a finding
PlainObject == Item(Undefined, Undefined, UndefinedStr)

\* response.choices?.[0]?.message?.content || response.content ||
\* response.message?.content || JSON.stringify(response)
\* for a completion object whose message content is `content`
ResponseText(content) ==
    IF content.body.t = "empty" THEN Text("bare", Body("envelope", <<>>)) ELSE content

\* the fenced block, else the slice from the first '[' to the last ']', else the
\* text itself (lines 134-149); "garbage" stands for a text JSON.parse rejects
CleanText(text) ==
    IF text.wrap = "fenced" THEN text.body
    ELSE CASE text.body.t = "array"       -> text.body
           [] text.body.t = "flagsObject" -> Body("array", text.body.items)
           [] text.body.t = "envelope"    -> Body("array", <<PlainObject>>)
           [] text.body.t \in {"object", "scalar"} ->
                  IF text.wrap = "prose" THEN Body("garbage", <<>>) ELSE text.body
           [] OTHER -> text.body

\* try { return JSON.parse(cleanedText) } catch { return [] }
ParseOrEmpty(cleaned) ==
    IF cleaned.t \in {"garbage", "empty"} THEN EmptyArray ELSE cleaned

\* callLLM's catch block: `return []`
CallLLMCatch == EmptyArray

\* what callLLM returns once `await Promise.race([chatPromise, timeoutPromise])`
\* has settled: settle.how is "resolved" (with settle.text), "rejected" or "timeout"
CallLLMResult(settle) ==
    IF settle.how = "resolved"
    THEN ParseOrEmpty(CleanText(ResponseText(settle.text)))
    ELSE CallLLMCatch

\* analyzeChunk lines 173-181: the array, response.flags, or the object wrapped
FlagsArray(response) ==
    CASE response.t \in {"array", "flagsObject"} -> response.items
      [] response.t = "object" -> response.items
      [] OTHER -> <<>>

\* analyzeChunk(chunk, chunkIndex), given what callLLM returned
analyzeChunk(response, chunkIndex) == ConvertItems(FlagsArray(response), chunkIndex)

\* (mutation of PushFlags: the chunk's findings are put in front, as unshift would)
PushFlagsFront(all, fl) == fl \o all

\* allFlags.push(...flags)
PushFlags(all, fl) == all \o fl

(***************************************************************************)
(* analyzeWithLLM as a process; the backend and the timers are its         *)
(* environment                                                             *)
(***************************************************************************)
\* Bounds: the documents have at most MaxParas paragraphs, and ChunkBudget stands
\* for the 15000 of `chunkText(text, 15000)` on documents of this size
MaxParas == 2
ChunkBudget == 2

RECURSIVE Paragraphs(_)
\* the document of n two-character paragraphs
Paragraphs(n) ==
    IF n = 0 THEN <<>>
    ELSE IF n = 1 THEN <<"a", "b">>
    ELSE <<"a", "b", NL, NL>> \o Paragraphs(n - 1)

LLMTexts == {Paragraphs(n) : n \in 0..MaxParas} \cup {<<NL, NL, NL, NL>>}

\* "ok": the SDK loads and ZAI.create() gives a client; "noCreate": ZAI.create is
\* not a function; "createThrows": ZAI.create() rejects (no credentials);
\* "importThrows": the import fails
SdkStates == {"ok", "noCreate", "createThrows", "importThrows"}

ScoreStrs == {<<"7">>, <<"0">>, <<"1", "5">>, <<"-", "3">>, <<" ", "8">>,
              <<"a", "b", "c">>, UndefinedStr}

GoodItem == Item("legal", "HIGH", <<"7">>)

SampleItems ==
    {Item("legal", "HIGH", s) : s \in ScoreStrs}
    \cup {Item(c, v, <<"7">>) : c \in {"banana", Undefined}, v \in {"SEVERE", Undefined}}
    \cup {NullItem}

\* the message contents the backend may answer with
BackendTexts ==
    {Text("bare", Body("array", <<it>>)) : it \in SampleItems}
    \cup {Text("bare", Body("array", <<>>)),
          Text("bare", Body("array", <<GoodItem, Item("tax", "LOW", <<"1", "5">>)>>)),
          Text("fenced", Body("array", <<GoodItem>>)),
          Text("fenced", Body("flagsObject", <<GoodItem>>)),
          Text("bare", Body("flagsObject", <<GoodItem>>)),
          Text("bare", Body("object", <<GoodItem>>)),
          Text("prose", Body("array", <<GoodItem>>)),
          Text("prose", Body("object", <<GoodItem>>)),
          Text("bare", Body("scalar", <<>>)),
          Text("bare", Body("garbage", <<>>)),
          EmptyText}

Event(ev, chunkIndex) == [ev |-> ev, chunk |-> chunkIndex]
Outcome(how, text) == [how |-> how, text |-> text]

LLMInit ==
    /\ lText \in LLMTexts
    /\ lSdk \in SdkStates
    /\ lPc = "start"
    /\ lChunks = <<>> /\ lI = 0 /\ allFlags = <<>> /\ pending = {}
    /\ lRet = <<>> /\ lLog = <<>> /\ lOutcome = <<>>
    /\ ChunkIdle /\ RulesIdle /\ IdsIdle /\ ScanIdle /\ FuzzyIdle

\* lines 216-224: chunk the text and enter the loop
StartAnalysis ==
    /\ lPc = "start"
    /\ lChunks' = chunkText(lText, ChunkBudget)
    /\ lI' = 0
    /\ allFlags' = <<>>
    /\ IF Len(lChunks') = 0
       THEN lPc' = "done" /\ lRet' = <<>>
       ELSE lPc' = "chunk" /\ lRet' = lRet
    /\ UNCHANGED <<lText, lSdk, pending, lLog, lOutcome>>
    /\ UNCHANGED <<cvars, rvars, ivars, tvars, fvars>>

\* (mutation of FinishChunk: `i <= chunks.length - 1`, a delay after the last
\* chunk too)
FinishChunkDelayAfterLast(settle) ==
    /\ allFlags' = PushFlags(allFlags, analyzeChunk(CallLLMResult(settle), lI))
    /\ lOutcome' = Append(lOutcome, Outcome(settle.how, settle.text))
    /\ IF lI <= Len(lChunks) - 1
       THEN lPc' = "delay" /\ lRet' = lRet
       ELSE lPc' = "done" /\ lRet' = allFlags'

\* lines 170-206 and 225-236: callLLM has returned for chunk i; the items are
\* converted and pushed, then the loop either paces or ends and returns allFlags
FinishChunk(settle) ==
    /\ allFlags' = PushFlags(allFlags, analyzeChunk(CallLLMResult(settle), lI))
    /\ lOutcome' = Append(lOutcome, Outcome(settle.how, settle.text))
    /\ IF lI < Len(lChunks) - 1
       THEN lPc' = "delay" /\ lRet' = lRet
       ELSE lPc' = "done" /\ lRet' = allFlags'

\* lines 164-170 and 86-120: analyzeChunk(chunks[i], i) calls callLLM, which
\* returns [] at once without a usable SDK, and else starts the completion call
\* and the 60 s timer and awaits their race
BeginChunk ==
    /\ lPc = "chunk"
    /\ IF lSdk = "ok"
       THEN /\ pending' = pending \cup {lI}
            /\ lPc' = "race"
            /\ lLog' = lLog \o <<Event("start", lI), Event("call", lI)>>
            /\ UNCHANGED <<allFlags, lOutcome, lRet>>
       ELSE /\ FinishChunk(Outcome(lSdk, NoText))
            /\ lLog' = lLog \o <<Event("start", lI), Event("finish", lI)>>
            /\ UNCHANGED pending
    /\ UNCHANGED <<lText, lSdk, lChunks, lI>>
    /\ UNCHANGED <<cvars, rvars, ivars, tvars, fvars>>

\* the awaited completion call resolves with message content `text`
BackendResolves(text) ==
    /\ lPc = "race"
    /\ lI \in pending
    /\ pending' = pending \ {lI}
    /\ FinishChunk(Outcome("resolved", text))
    /\ lLog' = Append(lLog, Event("finish", lI))
    /\ UNCHANGED <<lText, lSdk, lChunks, lI>>
    /\ UNCHANGED <<cvars, rvars, ivars, tvars, fvars>>

\* the awaited completion call rejects (connection error, HTTP error)
BackendRejects ==
    /\ lPc = "race"
    /\ lI \in pending
    /\ pending' = pending \ {lI}
    /\ FinishChunk(Outcome("rejected", NoText))
    /\ lLog' = Append(lLog, Event("finish", lI))
    /\ UNCHANGED <<lText, lSdk, lChunks, lI>>
    /\ UNCHANGED <<cvars, rvars, ivars, tvars, fvars>>

\* (mutation of TimeoutFires: `await chatPromise` with no timer racing it, so that
\* nothing happens until the backend settles)
AwaitWithoutTimeout ==
    /\ lPc = "race"
    /\ FALSE
    /\ UNCHANGED vars

\* lines 116-120: the 60 s timer rejects the race first; nothing cancels the
\* completion call, which stays outstanding at the backend
TimeoutFires ==
    /\ lPc = "race"
    /\ FinishChunk(Outcome("timeout", NoText))
    /\ lLog' = Append(lLog, Event("finish", lI))
    /\ UNCHANGED <<lText, lSdk, lChunks, lI, pending>>
    /\ UNCHANGED <<cvars, rvars, ivars, tvars, fvars>>

\* a completion call the program no longer awaits settles at last
LateSettle(c) ==
    /\ c \in pending
    /\ ~(lPc = "race" /\ c = lI)
    /\ pending' = pending \ {c}
    /\ UNCHANGED <<lText, lSdk, lPc, lChunks, lI, allFlags, lRet, lLog, lOutcome>>
    /\ UNCHANGED <<cvars, rvars, ivars, tvars, fvars>>

\* lines 229-231 and the loop's i++: the 500 ms pacing timer ends
Pace ==
    /\ lPc = "delay"
    /\ lI' = lI + 1
    /\ lPc' = "chunk"
    /\ lLog' = Append(lLog, Event("delay", lI))
    /\ UNCHANGED <<lText, lSdk, lChunks, allFlags, pending, lRet, lOutcome>>
    /\ UNCHANGED <<cvars, rvars, ivars, tvars, fvars>>

LLMProgram == StartAnalysis \/ BeginChunk \/ Pace

LLMBackend ==
    \/ \E text \in BackendTexts : BackendResolves(text)
    \/ BackendRejects
    \/ \E c \in 0..MaxParas : LateSettle(c)

LLMNext == LLMProgram \/ LLMBackend \/ TimeoutFires

SpecLLM == LLMInit /\ [][LLMNext]_vars

\* The event loop runs every ready continuation and every timer that is due; the
\* backend owes nothing.
SpecLLMFair == SpecLLM /\ WF_vars(LLMProgram) /\ WF_vars(TimeoutFires)

(***************************************************************************)
(* Properties of analyzeWithLLM                                            *)
(***************************************************************************)
\* the findings of the list fl that were made from chunk c (0-based)
FlagsOfChunk(fl, c) == SelectSeq(fl, LAMBDA f : f.chunk = c)

\* a returned text the documented parse rejects: after taking the fenced block,
\* or else the slice between the first '[' and the last ']', it is not JSON
Unparsable(text) ==
    \/ text.body.t \in {"garbage", "empty"}
    \/ text.wrap = "prose" /\ text.body.t \in {"object", "scalar"}

\* the backend call of a chunk timed out or returned unparsable text
TimedOutOrUnparsable(o) ==
    \/ o.how = "timeout"
    \/ o.how = "resolved" /\ Unparsable(o.text)

\* C1: a chunk whose backend call times out or returns text that cannot be parsed
\* contributes zero findings; no error is raised, every chunk is still analysed,
\* and the result holds every finding the other chunks produced.
C1_Degradation ==
    lPc = "done" =>
        /\ Len(lOutcome) = Len(lChunks)
        /\ \A c \in 1..Len(lOutcome) :
              IF TimedOutOrUnparsable(lOutcome[c])
              THEN FlagsOfChunk(lRet, c - 1) = <<>>
              ELSE FlagsOfChunk(lRet, c - 1)
                       = analyzeChunk(CallLLMResult(lOutcome[c]), c - 1)

\* no backend call of the run gave the program an answer
AllCallsFailed == \A c \in 1..Len(lOutcome) : lOutcome[c].how # "resolved"

\* C2: whatever the backend does (answers, never answers, throws, has no entry
\* point or no credentials), analyzeWithLLM eventually returns a list and never
\* raises; when every backend call failed, the list is empty.
C2_AlwaysReturns ==
    /\ <>(lPc = "done")
    /\ [](lPc = "done" =>
            /\ \A k \in 1..Len(lRet) : lRet[k].source = "llm_analyzer"
            /\ (AllCallsFailed => lRet = <<>>))

\* reached: a run over two chunks whose calls both failed, one by timeout,
\* has returned the empty list
C2_Witness ==
    /\ lPc = "done" /\ Len(lOutcome) >= 2 /\ AllCallsFailed /\ lRet = <<>>
    /\ \E c \in 1..Len(lOutcome) : lOutcome[c].how = "timeout"

\* C3: at most one completion call is outstanding at the backend at any moment
\* of a run, also after a call has hit the 60 s timeout.
C3_OneOutstanding == Cardinality(pending) <= 1

\* the chunk indices of the events of kind ev, in the order they happened
RECURSIVE ChunksOf(_, _)
ChunksOf(log, ev) ==
    IF log = <<>> THEN <<>>
    ELSE (IF Head(log).ev = ev THEN <<Head(log).chunk>> ELSE <<>>)
         \o ChunksOf(Tail(log), ev)

\* C4: the analysis of chunk i+1 starts only after that of chunk i has finished,
\* in increasing chunk index, and the result is the concatenation of the
\* per-chunk finding lists in chunk order.
C4_Sequential ==
    LET starts   == ChunksOf(lLog, "start")
        finishes == ChunksOf(lLog, "finish")
    IN  /\ \A k \in 1..Len(starts) : starts[k] = k - 1
        /\ \A k \in 1..Len(finishes) : finishes[k] = k - 1
        /\ Len(finishes) <= Len(starts) /\ Len(starts) <= Len(finishes) + 1
        /\ \A p \in 1..Len(lLog) :
              (lLog[p].ev = "start" /\ lLog[p].chunk > 0) =>
                  \E q \in 1..(p - 1) : lLog[q] = Event("finish", lLog[p].chunk - 1)
        /\ allFlags = Concat([c \in 1..Len(lOutcome) |->
                                analyzeChunk(CallLLMResult(lOutcome[c]), c - 1)])
        /\ \A p, q \in 1..Len(allFlags) :
              p < q => allFlags[p].chunk <= allFlags[q].chunk
        /\ lPc = "done" => lRet = allFlags

\* reached: a returned list holding a finding of chunk 0 before a finding of chunk 1
C4_Witness ==
    /\ lPc = "done"
    /\ \E p, q \in 1..Len(lRet) : p < q /\ lRet[p].chunk = 0 /\ lRet[q].chunk = 1

\* C7: a finding's score is the item's score parsed as an integer and clamped
\* into [1,10] (0 and negatives give 1, 15 gives 10); it is 5 only when the score
\* is missing or does not parse.
C7_ScoreClamped ==
    \A k \in 1..Len(allFlags) :
        LET p == parseInt(allFlags[k].item.score)
        IN  allFlags[k].score = IF p.nan THEN 5
                                ELSE IF p.val < 1 THEN 1
                                ELSE IF p.val > 10 THEN 10
                                ELSE p.val

\* C8: every finding has a severity of the four and a category of the fixed set;
\* a missing or unknown severity gives MEDIUM, a missing or unknown category 'other'.
C8_EnumsNormalized ==
    \A k \in 1..Len(allFlags) :
        LET f == allFlags[k] IN
        /\ f.severity \in Severities
        /\ f.category \in Categories
        /\ (f.item.severity \notin Severities => f.severity = "MEDIUM")
        /\ (f.item.category \notin Categories => f.category = "other")

\* C19: a pacing delay occurs after the analysis of chunk i and before the backend
\* call of chunk i+1 for every chunk that is not the last, whether or not chunk i
\* failed; no delay occurs after the last chunk, and none for a single chunk.
C19_PacingDelay ==
    /\ \A k \in 1..Len(lLog) :
          lLog[k].ev = "delay" =>
              /\ lLog[k].chunk < Len(lChunks) - 1
              /\ k > 1 /\ lLog[k - 1] = Event("finish", lLog[k].chunk)
    /\ \A k \in 1..Len(lLog) :
          (lLog[k].ev = "start" /\ lLog[k].chunk > 0) =>
              k > 1 /\ lLog[k - 1] = Event("delay", lLog[k].chunk - 1)
    /\ lPc = "done" =>
          Len(SelectSeq(lLog, LAMBDA e : e.ev = "delay")) = Max(0, Len(lChunks) - 1)

\* reached: a run over two chunks has returned; the call of the first chunk timed
\* out, the delay followed, and the second chunk was then sent to the backend
C19_Witness ==
    /\ lPc = "done"
    /\ Len(lChunks) = 2
    /\ Len(lOutcome) = 2 /\ lOutcome[1].how = "timeout" /\ lOutcome[2].how = "resolved"
    /\ \E k \in 2..(Len(lLog) - 1) :
          /\ lLog[k] = Event("delay", 0)
          /\ lLog[k - 1] = Event("finish", 0)
          /\ lLog[k + 1] = Event("start", 1)

(***************************************************************************)
(* The rule catalog (rule-engine.ts)                                       *)
(*                                                                         *)
(* A text is the sequence of the occurrences the rules' patterns find in   *)
(* it. An occurrence is [k, s, n, b]:                                      *)
(*   "offshore"      s: the jurisdiction matched, b: its context mentions  *)
(*                   governing law, arbitration or dispute resolution      *)
(*   "weasel"        s: the word, n: how many whole-word matches           *)
(*   "phrase"        s: the deferral phrase, b: it is written plainly, so  *)
(*                   that text.toLowerCase().includes(s) holds too         *)
(*   "audit"         n: the two digits captured after 19 / 20              *)
(*   "payment"       s: "earnout" or "deferred", the pattern that matched  *)
(*   "survival"      n: the number captured                                *)
(*   "concentration" n: the percentage captured                            *)
(*   "keyword"       s: the required provision one of whose keywords occurs*)
(*   "regulatory"    s: the term matched                                   *)
(*   "transition"    n: the number captured, b: the match mentions weeks   *)
(*   "notice"        n: the number captured, b: the match mentions weeks   *)
(*   "stock"         s: the ratio captured                                 *)
(*   "pathological"  n: the rule whose pattern evaluation throws on it     *)
(***************************************************************************)
Occ(k, s, n, b) == [k |-> k, s |-> s, n |-> n, b |-> b]

OFFSHORE_JURISDICTIONS ==
    <<"Cayman Islands", "BVI", "British Virgin Islands", "Bermuda", "Panama",
      "Isle of Man", "Jersey", "Guernsey", "Liechtenstein", "Luxembourg",
      "Cyprus", "Malta", "Seychelles", "Bahamas">>

WEASEL_WORDS ==
    <<"reasonable", "material", "substantial", "significant", "timely",
      "commercially reasonable", "best efforts">>

HIGH_RISK_PHRASES ==
    <<"to be provided", "being finalized", "being compiled", "will be attached",
      "to be determined", "subject to", "contingent upon">>

missingIndicators ==
    <<"being finalized", "to be provided", "being compiled", "will be attached",
      "to be determined">>

requiredProvisions ==
    <<[id |-> "escrow",
       keywords |-> <<"escrow", "holdback", "retention">>,
       title |-> "Missing Escrow/Holdback Provision"],
      [id |-> "survival_period",
       keywords |-> <<"survival", "survive closing", "survival period">>,
       title |-> "Missing Survival Period Provision"],
      [id |-> "mac_clause",
       keywords |-> <<"material adverse", "material adverse change", "material adverse effect">>,
       title |-> "Missing MAC Clause"],
      [id |-> "liability_cap",
       keywords |-> <<"cap", "limitation of liability", "maximum liability">>,
       title |-> "Missing Liability Cap"],
      [id |-> "environmental",
       keywords |-> <<"environmental", "hazardous", "pollution", "cleanup">>,
       title |-> "Missing Environmental Provision"],
      [id |-> "employee_benefits",
       keywords |-> <<"employee benefit", "pension", "401k", "ERISA">>,
       title |-> "Missing Employee Benefits Provision"],
      [id |-> "confidentiality",
       keywords |-> <<"confidential", "non-disclosure", "ndia", "proprietary information">>,
       title |-> "Missing Confidentiality Provision"]>>

regulatoryKeywords ==
    <<[term |-> "FERC",
       title |-> "Federal Energy Regulatory Commission (FERC) Approval Required"],
      [term |-> "Regulatory Approval", title |-> "Material Regulatory Closing Condition"],
      [term |-> "Antitrust", title |-> "Antitrust/Competition Filing Required"]>>

NotFound == "N/A - Provision not found in document"

\* the object literal of a flags.push: title is the fixed part of the title,
\* titleStr / titleNum the value the template embeds ("" / 0 when none);
\* location is "context" for an excerpt of the text
RuleFlag(category, severity, title, titleStr, titleNum, location, score) ==
    [category |-> category, severity |-> severity, title |-> title,
     titleStr |-> titleStr, titleNum |-> titleNum, location |-> location,
     score |-> score, source |-> "rule_engine"]

\* the occurrences of kind k in the text, in document order
Find(text, k) == SelectSeq(text, LAMBDA o : o.k = k)

\* lines 60-89
checkOffshoreJurisdictions(text, fl) ==
    fl \o Concat([j \in 1..Len(OFFSHORE_JURISDICTIONS) |->
        LET m == SelectSeq(Find(text, "offshore"),
                           LAMBDA o : o.s = OFFSHORE_JURISDICTIONS[j])
        IN  [i \in 1..Len(m) |->
                RuleFlag("jurisdiction", IF m[i].b THEN "CRITICAL" ELSE "HIGH",
                         "Offshore Jurisdiction", m[i].s, 0, "context",
                         IF m[i].b THEN 9 ELSE 7)]])

RECURSIVE SumN(_)
SumN(occs) == IF occs = <<>> THEN 0 ELSE Head(occs).n + SumN(Tail(occs))

\* text.match(pattern).length for a weasel word (0 for no match)
WeaselCount(text, word) ==
    SumN(SelectSeq(Find(text, "weasel"), LAMBDA o : o.s = word))

\* lines 91-118
checkWeaselWords(text, fl) ==
    fl \o Concat([w \in 1..Len(WEASEL_WORDS) |->
        IF WeaselCount(text, WEASEL_WORDS[w]) > 3
        THEN <<RuleFlag("vague_language", "MEDIUM", "Excessive Vague Language",
                        WEASEL_WORDS[w], WeaselCount(text, WEASEL_WORDS[w]),
                        "context", 5)>>
        ELSE <<>>])

\* lines 120-141
checkHighRiskPhrases(text, fl) ==
    fl \o Concat([p \in 1..Len(HIGH_RISK_PHRASES) |->
        LET m == SelectSeq(Find(text, "phrase"), LAMBDA o : o.s = HIGH_RISK_PHRASES[p])
        IN  [i \in 1..Len(m) |->
                RuleFlag("missing_info", "HIGH", "Deferred Disclosure", m[i].s, 0,
                         "context", 8)]])

\* text.toLowerCase().includes(indicator)
Includes(text, indicator) ==
    \E i \in 1..Len(text) : text[i].k = "phrase" /\ text[i].s = indicator /\ text[i].b

\* (mutation of checkMissingSchedules: `flags.unshift`, the finding put first)
checkMissingSchedulesFront(text, fl) ==
    LET hits == SelectSeq(missingIndicators, LAMBDA ind : Includes(text, ind))
    IN  IF hits = <<>> THEN fl
        ELSE <<RuleFlag("missing_info", "CRITICAL",
                        "Missing or Incomplete Schedules", Head(hits), 0,
                        "match", 10)>> \o fl

\* lines 143-180: the first indicator of the list the text includes, flagged once
checkMissingSchedules(text, fl) ==
    LET hits == SelectSeq(missingIndicators, LAMBDA ind : Includes(text, ind))
    IN  IF hits = <<>> THEN fl
        ELSE Append(fl, RuleFlag("missing_info", "CRITICAL",
                                 "Missing or Incomplete Schedules", Head(hits), 0,
                                 "match", 10))

\* (mutation of FullYear: `year >= 50`, the pivot taken one year earlier)
FullYearFrom50(year) == IF year >= 50 THEN 1900 + year ELSE 2000 + year

\* line 189
FullYear(year) == IF year > 50 THEN 1900 + year ELSE 2000 + year

\* lines 182-209
checkDateAnomalies(text, currentYear, fl) ==
    LET m == SelectSeq(Find(text, "audit"), LAMBDA o : FullYear(o.n) < currentYear - 2)
    IN  fl \o [i \in 1..Len(m) |->
                  RuleFlag("financial", "HIGH", "Outdated Financial Audit", "",
                           FullYear(m[i].n), "context", 7)]

\* lines 211-249
checkPaymentRedFlags(text, fl) ==
    LET e == SelectSeq(Find(text, "payment"), LAMBDA o : o.s = "earnout")
        d == SelectSeq(Find(text, "payment"), LAMBDA o : o.s = "deferred")
    IN  fl \o [i \in 1..Len(e) |->
                  RuleFlag("financial", "CRITICAL", "Undefined Earnout Targets", "", 0,
                           "context", 10)]
           \o [i \in 1..Len(d) |->
                  RuleFlag("financial", "HIGH", "Undefined Deferred Payment Terms", "", 0,
                           "context", 8)]

\* lines 251-275
checkLiabilityLimitations(text, fl) ==
    LET m == SelectSeq(Find(text, "survival"), LAMBDA o : o.n < 12)
    IN  fl \o [i \in 1..Len(m) |->
                  RuleFlag("liability", "HIGH", "Short Survival Period", "", m[i].n,
                           "context", 7)]

\* (mutation of checkCustomerConcentration: `score: percentage`, the percentage
\* taken for the score)
checkCustomerConcentrationPct(text, fl) ==
    LET m == SelectSeq(Find(text, "concentration"), LAMBDA o : o.n > 50)
    IN  fl \o [i \in 1..Len(m) |->
                  RuleFlag("customer", IF m[i].n > 70 THEN "CRITICAL" ELSE "HIGH",
                           "High Customer Concentration", "", m[i].n, "context",
                           m[i].n)]

\* (mutation of checkCustomerConcentration: `percentage >= 50`)
checkCustomerConcentrationFrom50(text, fl) ==
    LET m == SelectSeq(Find(text, "concentration"), LAMBDA o : o.n >= 50)
    IN  fl \o [i \in 1..Len(m) |->
                  RuleFlag("customer", IF m[i].n > 70 THEN "CRITICAL" ELSE "HIGH",
                           "High Customer Concentration", "", m[i].n, "context",
                           IF m[i].n > 70 THEN 9 ELSE 7)]

\* lines 277-302
checkCustomerConcentration(text, fl) ==
    LET m == SelectSeq(Find(text, "concentration"), LAMBDA o : o.n > 50)
    IN  fl \o [i \in 1..Len(m) |->
                  RuleFlag("customer", IF m[i].n > 70 THEN "CRITICAL" ELSE "HIGH",
                           "High Customer Concentration", "", m[i].n, "context",
                           IF m[i].n > 70 THEN 9 ELSE 7)]

\* provision.keywords.some(keyword => pattern.test(text))
hasProvision(text, id) ==
    \E i \in 1..Len(text) : text[i].k = "keyword" /\ text[i].s = id

\* lines 304-373
checkRequiredProvisions(text, fl) ==
    LET m == SelectSeq(requiredProvisions, LAMBDA p : ~hasProvision(text, p.id))
    IN  fl \o [i \in 1..Len(m) |->
                  RuleFlag(IF m[i].id = "confidentiality" THEN "legal" ELSE "missing_info",
                           IF m[i].id = "confidentiality" THEN "CRITICAL" ELSE "HIGH",
                           m[i].title, "", 0, NotFound,
                           IF m[i].id = "confidentiality" THEN 10 ELSE 7)]

\* lines 375-402
checkRegulatoryRisks(text, fl) ==
    fl \o Concat([r \in 1..Len(regulatoryKeywords) |->
        LET m == SelectSeq(Find(text, "regulatory"),
                           LAMBDA o : o.s = regulatoryKeywords[r].term)
        IN  [i \in 1..Len(m) |->
                RuleFlag("compliance", "HIGH", regulatoryKeywords[r].title, "", 0,
                         "context", 8)]])

\* lines 410-412 and 433-435
Days(o) == IF o.b THEN o.n * 7 ELSE o.n

\* lines 404-452
checkShortNoticePeriods(text, fl) ==
    LET t == SelectSeq(Find(text, "transition"), LAMBDA o : Days(o) < 90)
        c == SelectSeq(Find(text, "notice"), LAMBDA o : Days(o) < 90)
    IN  fl \o [i \in 1..Len(t) |->
                  RuleFlag("operational", "MEDIUM", "Short Transition Period", "",
                           Days(t[i]), "context", 6)]
           \o [i \in 1..Len(c) |->
                  RuleFlag("liability", "MEDIUM", "Aggressive Claim Notice Period", "",
                           Days(c[i]), "context", 5)]

\* lines 454-474
checkStockConsideration(text, fl) ==
    LET m == Find(text, "stock")
    IN  fl \o [i \in 1..Len(m) |->
                  RuleFlag("financial", "LOW", "Stock Consideration Volatility", m[i].s, 0,
                           "context", 3)]

NumRules == 12

\* the n-th call of lines 484-495
RunCheck(n, text, currentYear, fl) ==
    CASE n = 1  -> checkOffshoreJurisdictions(text, fl)
      [] n = 2  -> checkWeaselWords(text, fl)
      [] n = 3  -> checkHighRiskPhrases(text, fl)
      [] n = 4  -> checkMissingSchedules(text, fl)
      [] n = 5  -> checkDateAnomalies(text, currentYear, fl)
      [] n = 6  -> checkPaymentRedFlags(text, fl)
      [] n = 7  -> checkLiabilityLimitations(text, fl)
      [] n = 8  -> checkCustomerConcentration(text, fl)
      [] n = 9  -> checkRequiredProvisions(text, fl)
      [] n = 10 -> checkRegulatoryRisks(text, fl)
      [] n = 11 -> checkShortNoticePeriods(text, fl)
      [] n = 12 -> checkStockConsideration(text, fl)

\* the evaluation of rule n's patterns throws on this text
Throws(text, n) ==
    \E i \in 1..Len(text) : text[i].k = "pathological" /\ text[i].n = n

(***************************************************************************)
(* analyzeWithRules as a process                                           *)
(***************************************************************************)
\* Bounds: a text holds at most MaxDocLen occurrences; ThisYear is the year the
\* analysis runs in
MaxDocLen == 2
ThisYear == 2026

Occurrences ==
    {Occ("offshore", "Cayman Islands", 0, TRUE), Occ("offshore", "Cayman Islands", 0, FALSE),
     Occ("offshore", "Bermuda", 0, FALSE),
     Occ("weasel", "reasonable", 1, FALSE), Occ("weasel", "reasonable", 3, FALSE),
     Occ("phrase", "to be provided", 0, TRUE), Occ("phrase", "to be provided", 0, FALSE),
     Occ("phrase", "subject to", 0, TRUE),
     Occ("payment", "earnout", 0, FALSE), Occ("payment", "deferred", 0, FALSE),
     Occ("keyword", "escrow", 0, FALSE), Occ("keyword", "mac_clause", 0, FALSE),
     Occ("keyword", "confidentiality", 0, FALSE),
     Occ("regulatory", "FERC", 0, FALSE), Occ("regulatory", "Antitrust", 0, FALSE),
     Occ("transition", "", 60, FALSE), Occ("transition", "", 12, TRUE),
     Occ("transition", "", 13, TRUE),
     Occ("notice", "", 60, FALSE), Occ("notice", "", 90, FALSE),
     Occ("stock", "0.5", 0, FALSE)}
    \cup {Occ("audit", "", yy, FALSE) : yy \in {23, 24, 50, 51}}
    \cup {Occ("survival", "", n, FALSE) : n \in {11, 12}}
    \cup {Occ("concentration", "", p, FALSE) : p \in {50, 51, 70, 71}}
    \cup {Occ("pathological", "", n, FALSE) : n \in {1, 9, 12}}

\* the rule (for "keyword": the step of rule 9) that reads occurrences of kind k
KindRank(k) ==
    CASE k = "offshore" -> 1 [] k = "weasel" -> 2 [] k = "phrase" -> 3
      [] k = "audit" -> 5 [] k = "payment" -> 6 [] k = "survival" -> 7
      [] k = "concentration" -> 8 [] k = "keyword" -> 9 [] k = "regulatory" -> 10
      [] k = "transition" -> 11 [] k = "notice" -> 11 [] k = "stock" -> 12
      [] k = "pathological" -> 13

\* No rule reads the occurrences of another kind, so a text is listed with its
\* occurrences grouped by kind; those of one kind keep their document order.
Grouped(d) == \A i, j \in 1..Len(d) : i < j => KindRank(d[i].k) <= KindRank(d[j].k)

Docs == {d \in UNION {[1..k -> Occurrences] : k \in 0..MaxDocLen} : Grouped(d)}

RulesInit ==
    /\ rDoc \in Docs
    /\ rYear = ThisYear
    /\ rPc = "running"
    /\ rN = 1
    /\ flags = <<>>
    /\ rRet = <<>>
    /\ rRun = 1 /\ rFirst = <<>>
    /\ ChunkIdle /\ LLMIdle /\ IdsIdle /\ ScanIdle /\ FuzzyIdle

\* one of the calls of lines 484-495 runs to its end
RunRule ==
    /\ rPc = "running"
    /\ rN <= NumRules
    /\ ~Throws(rDoc, rN)
    /\ flags' = RunCheck(rN, rDoc, rYear, flags)
    /\ rN' = rN + 1
    /\ UNCHANGED <<rDoc, rYear, rPc, rRet, rRun, rFirst>>
    /\ UNCHANGED <<cvars, lvars, ivars, tvars, fvars>>

\* one of the calls of lines 484-495 throws: nothing in analyzeWithRules catches
\* it, so the async function rejects and `return flags` is never reached
RuleThrows ==
    /\ rPc = "running"
    /\ rN <= NumRules
    /\ Throws(rDoc, rN)
    /\ rPc' = "failed"
    /\ UNCHANGED <<rDoc, rYear, rN, flags, rRet, rRun, rFirst>>
    /\ UNCHANGED <<cvars, lvars, ivars, tvars, fvars>>

\* line 499: return flags
ReturnFlags ==
    /\ rPc = "running"
    /\ rN = NumRules + 1
    /\ rRet' = flags
    /\ rPc' = "done"
    /\ UNCHANGED <<rDoc, rYear, rN, flags, rRun, rFirst>>
    /\ UNCHANGED <<cvars, lvars, ivars, tvars, fvars>>

\* (mutation of CallAgain: the second call is made after the turn of the year)
CallAgainNextYear ==
    /\ rPc = "done"
    /\ rRun = 1
    /\ rRun' = 2
    /\ rFirst' = rRet
    /\ rYear' = rYear + 1
    /\ rPc' = "running"
    /\ rN' = 1
    /\ flags' = <<>>
    /\ UNCHANGED <<rDoc, rRet>>
    /\ UNCHANGED <<cvars, lvars, ivars, tvars, fvars>>

\* lines 477-478: the caller calls analyzeWithRules(text) on the same text once
\* more, within the same year. Every pattern object is created by the call that
\* uses it (lines 62, 96, 122, 145, 161, 184, 214, 221, 253, 279, 348, 383, 406,
\* 431, 455), so the new call starts from `flags = []` and fresh patterns.
CallAgain ==
    /\ rPc = "done"
    /\ rRun = 1
    /\ rRun' = 2
    /\ rFirst' = rRet
    /\ rPc' = "running"
    /\ rN' = 1
    /\ flags' = <<>>
    /\ UNCHANGED <<rDoc, rYear, rRet>>
    /\ UNCHANGED <<cvars, lvars, ivars, tvars, fvars>>

RulesNext == RunRule \/ RuleThrows \/ ReturnFlags \/ CallAgain

SpecRules == RulesInit /\ [][RulesNext]_vars

\* analyzeWithRules never awaits: it runs to its end once called
SpecRulesFair == SpecRules /\ WF_vars(RulesNext)

(***************************************************************************)
(* Properties of analyzeWithRules                                          *)
(***************************************************************************)
\* C5: for every text analyzeWithRules terminates, and every finding it returns
\* has an integer score from 1 to 10 and one of the four severities.
C5_ScoreRange ==
    /\ <>(rPc \in {"done", "failed"})
    /\ [](\A k \in 1..Len(flags) :
             flags[k].score \in 1..10 /\ flags[k].severity \in Severities)
    /\ [](rPc = "done" => rRet = flags)

\* reached: a returned list holding findings of score 3 and of score 10
C5_Witness ==
    /\ rPc = "done"
    /\ \E k \in 1..Len(rRet) : rRet[k].score = 3 /\ rRet[k].severity = "LOW"
    /\ \E k \in 1..Len(rRet) : rRet[k].score = 10 /\ rRet[k].severity = "CRITICAL"
    /\ \E k \in 1..Len(rRet) : rRet[k].score = 9 /\ rRet[k].category = "customer"

\* the findings of the rules from number n on that do not throw on the text
RECURSIVE OtherRules(_, _, _, _)
OtherRules(n, text, currentYear, fl) ==
    IF n > NumRules THEN fl
    ELSE OtherRules(n + 1, text, currentYear,
                    IF Throws(text, n) THEN fl ELSE RunCheck(n, text, currentYear, fl))

\* C6: when a rule throws, the exception is caught, the rules after it still
\* run, and analyzeWithRules returns the findings of all other rules.
C6_RuleFailureIsolated ==
    /\ rPc # "failed"
    /\ rPc = "done" => rRet = OtherRules(1, rDoc, rYear, <<>>)

Verdict(severity, score, num) == [severity |-> severity, score |-> score, num |-> num]

VerdictsOf(fl, category) ==
    LET m == SelectSeq(fl, LAMBDA f : f.category = category)
    IN  [k \in 1..Len(m) |-> Verdict(m[k].severity, m[k].score, m[k].titleNum)]

\* C13: for a match of 'top N customers ... P%' the concentration rule gives no
\* finding when P <= 50, exactly one HIGH finding of score 7 when 51 <= P <= 70,
\* and exactly one CRITICAL finding of score 9 when P > 70.
C13_ConcentrationThresholds ==
    rPc = "done" =>
        LET m == Find(rDoc, "concentration")
        IN  VerdictsOf(rRet, "customer") =
                Concat([i \in 1..Len(m) |->
                    IF m[i].n <= 50 THEN <<>>
                    ELSE IF m[i].n <= 70 THEN <<Verdict("HIGH", 7, m[i].n)>>
                    ELSE <<Verdict("CRITICAL", 9, m[i].n)>>])

\* reached: a text stating 50% and then 51% has been analysed, with one finding
C13_Witness ==
    /\ rPc = "done"
    /\ rDoc = <<Occ("concentration", "", 50, FALSE), Occ("concentration", "", 51, FALSE)>>
    /\ VerdictsOf(rRet, "customer") = <<Verdict("HIGH", 7, 51)>>

AuditVerdicts == VerdictsOf(SelectSeq(rRet, LAMBDA f : f.title = "Outdated Financial Audit"),
                            "financial")

\* C18: the outdated-audit rule maps a captured 2-digit year yy to 1900+yy when
\* yy < 50 and to 2000+yy otherwise, and gives a HIGH finding of score 7 exactly
\* when the resulting year is before the current year - 2.
C18_TwoDigitYear ==
    rPc = "done" =>
        LET m == Find(rDoc, "audit")
        IN  AuditVerdicts =
                Concat([i \in 1..Len(m) |->
                    LET y == IF m[i].n < 50 THEN 1900 + m[i].n ELSE 2000 + m[i].n
                    IN  IF y < rYear - 2 THEN <<Verdict("HIGH", 7, y)>> ELSE <<>>])

\* C18, amended: the outdated-audit rule maps a captured 2-digit year yy to
\* 1900+yy when yy > 50 and to 2000+yy otherwise, and gives a HIGH finding of
\* score 7 exactly when the resulting year is before the current year - 2.
C18_TwoDigitYearPivot ==
    rPc = "done" =>
        LET m == Find(rDoc, "audit")
        IN  AuditVerdicts =
                Concat([i \in 1..Len(m) |->
                    LET y == IF m[i].n > 50 THEN 1900 + m[i].n ELSE 2000 + m[i].n
                    IN  IF y < rYear - 2 THEN <<Verdict("HIGH", 7, y)>> ELSE <<>>])

\* reached: a text with audits of year 50 and year 51 has been analysed; only the
\* second is flagged, as of 1951
C18_Witness ==
    /\ rPc = "done"
    /\ rDoc = <<Occ("audit", "", 50, FALSE), Occ("audit", "", 51, FALSE)>>
    /\ AuditVerdicts = <<Verdict("HIGH", 7, 1951)>>

\* C20: every rule only appends to the accumulator: after a rule has run, the
\* findings that were there before it are still there, at the same positions and
\* unchanged; so the result is the concatenation of the per-rule finding lists in
\* the order of the calls.
C20_AppendOnly ==
    /\ [][rN' = rN + 1 =>
            /\ Len(flags') >= Len(flags)
            /\ SubSeq(flags', 1, Len(flags)) = flags]_vars
    /\ [](rPc = "done" =>
            rRet = Concat([n \in 1..NumRules |-> RunCheck(n, rDoc, rYear, <<>>)]))

\* reached: a returned list in which the finding of checkMissingSchedules comes
\* after one of an earlier rule and before those of the later rules
C20_Witness ==
    /\ rPc = "done"
    /\ Len(rRet) >= 3
    /\ rRet[1].category = "jurisdiction"
    /\ \E k \in 2..(Len(rRet) - 1) : rRet[k].title = "Missing or Incomplete Schedules"

(***************************************************************************)
(* The pattern-matching rules on a text of characters                      *)
(***************************************************************************)
\* term.split(''): the characters of a literal of the catalogs
Spell(term) ==
    CASE term = "Cayman Islands" -> <<"C", "a", "y", "m", "a", "n", " ", "I", "s", "l", "a",
            "n", "d", "s">>
      [] term = "BVI" -> <<"B", "V", "I">>
      [] term = "British Virgin Islands" -> <<"B", "r", "i", "t", "i", "s", "h", " ", "V",
            "i", "r", "g", "i", "n", " ", "I", "s", "l", "a", "n", "d", "s">>
      [] term = "Bermuda" -> <<"B", "e", "r", "m", "u", "d", "a">>
      [] term = "Panama" -> <<"P", "a", "n", "a", "m", "a">>
      [] term = "Isle of Man" -> <<"I", "s", "l", "e", " ", "o", "f", " ", "M", "a", "n">>
      [] term = "Jersey" -> <<"J", "e", "r", "s", "e", "y">>
      [] term = "Guernsey" -> <<"G", "u", "e", "r", "n", "s", "e", "y">>
      [] term = "Liechtenstein" -> <<"L", "i", "e", "c", "h", "t", "e", "n", "s", "t", "e",
            "i", "n">>
      [] term = "Luxembourg" -> <<"L", "u", "x", "e", "m", "b", "o", "u", "r", "g">>
      [] term = "Cyprus" -> <<"C", "y", "p", "r", "u", "s">>
      [] term = "Malta" -> <<"M", "a", "l", "t", "a">>
      [] term = "Seychelles" -> <<"S", "e", "y", "c", "h", "e", "l", "l", "e", "s">>
      [] term = "Bahamas" -> <<"B", "a", "h", "a", "m", "a", "s">>
      [] term = "reasonable" -> <<"r", "e", "a", "s", "o", "n", "a", "b", "l", "e">>
      [] term = "material" -> <<"m", "a", "t", "e", "r", "i", "a", "l">>
      [] term = "substantial" -> <<"s", "u", "b", "s", "t", "a", "n", "t", "i", "a", "l">>
      [] term = "significant" -> <<"s", "i", "g", "n", "i", "f", "i", "c", "a", "n", "t">>
      [] term = "timely" -> <<"t", "i", "m", "e", "l", "y">>
      [] term = "commercially reasonable" -> <<"c", "o", "m", "m", "e", "r", "c", "i", "a",
            "l", "l", "y", " ", "r", "e", "a", "s", "o", "n", "a", "b", "l", "e">>
      [] term = "best efforts" -> <<"b", "e", "s", "t", " ", "e", "f", "f", "o", "r", "t",
            "s">>
      [] term = "to be provided" -> <<"t", "o", " ", "b", "e", " ", "p", "r", "o", "v", "i",
            "d", "e", "d">>
      [] term = "being finalized" -> <<"b", "e", "i", "n", "g", " ", "f", "i", "n", "a",
            "l", "i", "z", "e", "d">>
      [] term = "being compiled" -> <<"b", "e", "i", "n", "g", " ", "c", "o", "m", "p", "i",
            "l", "e", "d">>
      [] term = "will be attached" -> <<"w", "i", "l", "l", " ", "b", "e", " ", "a", "t",
            "t", "a", "c", "h", "e", "d">>
      [] term = "to be determined" -> <<"t", "o", " ", "b", "e", " ", "d", "e", "t", "e",
            "r", "m", "i", "n", "e", "d">>
      [] term = "subject to" -> <<"s", "u", "b", "j", "e", "c", "t", " ", "t", "o">>
      [] term = "contingent upon" -> <<"c", "o", "n", "t", "i", "n", "g", "e", "n", "t",
            " ", "u", "p", "o", "n">>
      [] term = "escrow" -> <<"e", "s", "c", "r", "o", "w">>
      [] term = "holdback" -> <<"h", "o", "l", "d", "b", "a", "c", "k">>
      [] term = "retention" -> <<"r", "e", "t", "e", "n", "t", "i", "o", "n">>
      [] term = "survival" -> <<"s", "u", "r", "v", "i", "v", "a", "l">>
      [] term = "survive closing" -> <<"s", "u", "r", "v", "i", "v", "e", " ", "c", "l",
            "o", "s", "i", "n", "g">>
      [] term = "survival period" -> <<"s", "u", "r", "v", "i", "v", "a", "l", " ", "p",
            "e", "r", "i", "o", "d">>
      [] term = "material adverse" -> <<"m", "a", "t", "e", "r", "i", "a", "l", " ", "a",
            "d", "v", "e", "r", "s", "e">>
      [] term = "material adverse change" -> <<"m", "a", "t", "e", "r", "i", "a", "l", " ",
            "a", "d", "v", "e", "r", "s", "e", " ", "c", "h", "a", "n", "g", "e">>
      [] term = "material adverse effect" -> <<"m", "a", "t", "e", "r", "i", "a", "l", " ",
            "a", "d", "v", "e", "r", "s", "e", " ", "e", "f", "f", "e", "c", "t">>
      [] term = "cap" -> <<"c", "a", "p">>
      [] term = "limitation of liability" -> <<"l", "i", "m", "i", "t", "a", "t", "i", "o",
            "n", " ", "o", "f", " ", "l", "i", "a", "b", "i", "l", "i", "t", "y">>
      [] term = "maximum liability" -> <<"m", "a", "x", "i", "m", "u", "m", " ", "l", "i",
            "a", "b", "i", "l", "i", "t", "y">>
      [] term = "environmental" -> <<"e", "n", "v", "i", "r", "o", "n", "m", "e", "n", "t",
            "a", "l">>
      [] term = "hazardous" -> <<"h", "a", "z", "a", "r", "d", "o", "u", "s">>
      [] term = "pollution" -> <<"p", "o", "l", "l", "u", "t", "i", "o", "n">>
      [] term = "cleanup" -> <<"c", "l", "e", "a", "n", "u", "p">>
      [] term = "employee benefit" -> <<"e", "m", "p", "l", "o", "y", "e", "e", " ", "b",
            "e", "n", "e", "f", "i", "t">>
      [] term = "pension" -> <<"p", "e", "n", "s", "i", "o", "n">>
      [] term = "401k" -> <<"4", "0", "1", "k">>
      [] term = "ERISA" -> <<"E", "R", "I", "S", "A">>
      [] term = "confidential" -> <<"c", "o", "n", "f", "i", "d", "e", "n", "t", "i", "a",
            "l">>
      [] term = "non-disclosure" -> <<"n", "o", "n", "-", "d", "i", "s", "c", "l", "o", "s",
            "u", "r", "e">>
      [] term = "ndia" -> <<"n", "d", "i", "a">>
      [] term = "proprietary information" -> <<"p", "r", "o", "p", "r", "i", "e", "t", "a",
            "r", "y", " ", "i", "n", "f", "o", "r", "m", "a", "t", "i", "o", "n">>
      [] term = "FERC" -> <<"F", "E", "R", "C">>
      [] term = "Regulatory Approval" -> <<"R", "e", "g", "u", "l", "a", "t", "o", "r", "y",
            " ", "A", "p", "p", "r", "o", "v", "a", "l">>
      [] term = "Antitrust" -> <<"A", "n", "t", "i", "t", "r", "u", "s", "t">>
      [] term = "governing law" -> <<"g", "o", "v", "e", "r", "n", "i", "n", "g", " ", "l",
            "a", "w">>
      [] term = "arbitration" -> <<"a", "r", "b", "i", "t", "r", "a", "t", "i", "o", "n">>
      [] term = "dispute resolution" -> <<"d", "i", "s", "p", "u", "t", "e", " ", "r", "e",
            "s", "o", "l", "u", "t", "i", "o", "n">>

UpperCase ==
    <<"A", "B", "C", "D", "E", "F", "G", "H", "I", "J", "K", "L", "M",
      "N", "O", "P", "Q", "R", "S", "T", "U", "V", "W", "X", "Y", "Z">>

LowerCaseOf ==
    <<"a", "b", "c", "d", "e", "f", "g", "h", "i", "j", "k", "l", "m",
      "n", "o", "p", "q", "r", "s", "t", "u", "v", "w", "x", "y", "z">>

\* String.prototype.toLowerCase on one character, and on a string
LowerChar(c) ==
    IF \E i \in 1..26 : UpperCase[i] = c
    THEN LowerCaseOf[CHOOSE i \in 1..26 : UpperCase[i] = c]
    ELSE c

toLowerCase(str) == [i \in 1..Len(str) |-> LowerChar(str[i])]

\* /[A-Za-z0-9]/.test(c), \s and \w
IsAlnum(c) ==
    \/ \E i \in 1..26 : UpperCase[i] = c \/ LowerCaseOf[i] = c
    \/ c \in DigitChars

IsSpace(c) == c \in {" ", NL, "\t"}

IsWordChar(c) == IsAlnum(c) \/ c = "_"

\* String.prototype.includes
includes(str, sub) ==
    \E i \in 0..(Len(str) - Len(sub)) : SubSeq(str, i + 1, i + Len(sub)) = sub

\* the elements of a pattern: a literal character (matched ignoring case under
\* the i flag), \s* and \s+
Lit(c) == [t |-> "lit", c |-> c]
Ws0 == [t |-> "ws*", c |-> ""]
Ws1 == [t |-> "ws+", c |-> ""]

RECURSIVE DropTrailingWs(_)
\* line 56: .replace(/(\\s\*)+$/, '')
DropTrailingWs(pat) ==
    IF pat # <<>> /\ pat[Len(pat)] = Ws0
    THEN DropTrailingWs(SubSeq(pat, 1, Len(pat) - 1))
    ELSE pat

\* lines 51-57: an alphanumeric character gives itself and \s*, any other
\* character gives \s* alone
fuzzyPattern(term) ==
    DropTrailingWs(Concat([i \in 1..Len(term) |->
        IF IsAlnum(term[i]) THEN <<Lit(term[i]), Ws0>> ELSE <<Ws0>>]))

\* line 95: word.replace(/\s+/g, '\\s+'), between two \b
WordPattern(word) ==
    Concat([i \in 1..Len(word) |->
        IF IsSpace(word[i])
        THEN IF i > 1 /\ IsSpace(word[i - 1]) THEN <<>> ELSE <<Ws1>>
        ELSE <<Lit(word[i])>>])

RECURSIVE SkipWs(_, _)
\* the offset after the whitespace that starts at offset i (offsets count from 0)
SkipWs(text, i) ==
    IF i < Len(text) /\ IsSpace(text[i + 1]) THEN SkipWs(text, i + 1) ELSE i

RECURSIVE MatchAt(_, _, _, _)
\* the offset at which a match of pat[p..] that starts at offset i ends, -1 for
\* no match. The literals of the patterns are no whitespace, so the greedy \s*
\* and \s+ never give characters back.
MatchAt(pat, p, text, i) ==
    IF p > Len(pat) THEN i
    ELSE IF pat[p].t = "lit"
         THEN IF i < Len(text) /\ LowerChar(text[i + 1]) = LowerChar(pat[p].c)
              THEN MatchAt(pat, p + 1, text, i + 1)
              ELSE -1
    ELSE IF pat[p].t = "ws+" /\ ~(i < Len(text) /\ IsSpace(text[i + 1])) THEN -1
    ELSE MatchAt(pat, p + 1, text, SkipWs(text, i))

\* \b at offset i
Boundary(text, i) ==
    (i > 0 /\ IsWordChar(text[i])) # (i < Len(text) /\ IsWordChar(text[i + 1]))

\* the end of the match of \b pat \b that starts at offset i, -1 for none
WordMatchAt(pat, text, i) ==
    LET e == MatchAt(pat, 1, text, i)
    IN  IF e # -1 /\ Boundary(text, i) /\ Boundary(text, e) THEN e ELSE -1

Span(index, end) == [index |-> index, end |-> end]

RECURSIVE ExecAll(_, _, _)
\* the matches of `while ((match = pattern.exec(text)) !== null)` under the g
\* flag, from lastIndex on: [match.index, match.index + match[0].length)
ExecAll(pat, text, lastIndex) ==
    IF lastIndex >= Len(text) THEN <<>>
    ELSE LET e == MatchAt(pat, 1, text, lastIndex)
         IN  IF e # -1 THEN <<Span(lastIndex, e)>> \o ExecAll(pat, text, e)
             ELSE ExecAll(pat, text, lastIndex + 1)

RECURSIVE MatchAllWords(_, _, _)
\* text.match(pattern) for \b pat \b under the g flag
MatchAllWords(pat, text, lastIndex) ==
    IF lastIndex >= Len(text) THEN <<>>
    ELSE LET e == WordMatchAt(pat, text, lastIndex)
         IN  IF e # -1 THEN <<Span(lastIndex, e)>> \o MatchAllWords(pat, text, e)
             ELSE MatchAllWords(pat, text, lastIndex + 1)

\* pattern.test(text) without the g flag
test(pat, text) == \E i \in 0..Len(text) : MatchAt(pat, 1, text, i) # -1

RECURSIVE TrimStart(_)
TrimStart(str) == IF str # <<>> /\ IsSpace(Head(str)) THEN TrimStart(Tail(str)) ELSE str

RECURSIVE TrimEnd(_)
TrimEnd(str) ==
    IF str # <<>> /\ IsSpace(str[Len(str)])
    THEN TrimEnd(SubSeq(str, 1, Len(str) - 1))
    ELSE str

\* String.prototype.trim and String.prototype.slice
trim(str) == TrimEnd(TrimStart(str))

slice(str, from, to) == SubSeq(str, from + 1, to)

Ellipsis == <<".", ".", ".">>

\* lines 34-43
getContext(text, start, end, chars) ==
    LET contextStart == Max(0, start - chars)
        contextEnd   == Min(Len(text), end + chars)
        context      == trim(slice(text, contextStart, contextEnd))
    IN  (IF contextStart > 0 THEN Ellipsis ELSE <<>>)
        \o context
        \o (IF contextEnd < Len(text) THEN Ellipsis ELSE <<>>)

\* Bounds: ContextChars stands for the 150 of getContext's default `chars` on
\* texts of this size; a text is made of at most MaxPieces pieces
ContextChars == 15
MaxPieces == 2

\* lines 68-72
isGoverningLaw(context) ==
    LET contextLower == toLowerCase(context)
    IN  \/ includes(contextLower, Spell("governing law"))
        \/ includes(contextLower, Spell("arbitration"))
        \/ includes(contextLower, Spell("dispute resolution"))

\* what a rule finds at one place of the text: the occurrence, the span
\* [index, end) of the match, and the excerpt the rule takes for the location
Found(occ, index, end, location) ==
    [occ |-> occ, index |-> index, end |-> end, location |-> location]

\* a finding with the span it was matched on and the characters of its location
Scanned(flag, found) ==
    [flag |-> flag, index |-> found.index, end |-> found.end,
     location |-> found.location]

OccsOf(found) == [i \in 1..Len(found) |-> found[i].occ]

\* lines 61-66: the matches of every jurisdiction, jurisdiction by jurisdiction
ScanOffshore(text) ==
    Concat([j \in 1..Len(OFFSHORE_JURISDICTIONS) |->
        LET m == ExecAll(fuzzyPattern(Spell(OFFSHORE_JURISDICTIONS[j])), text, 0)
        IN  [i \in 1..Len(m) |->
                LET context == getContext(text, m[i].index, m[i].end, ContextChars)
                IN  Found(Occ("offshore", OFFSHORE_JURISDICTIONS[j], 0,
                              isGoverningLaw(context)),
                          m[i].index, m[i].end, context)]])

\* lines 94-103: per word the number of matches; the excerpt is taken at the
\* first match, over word.length characters
ScanWeasel(text) ==
    Concat([w \in 1..Len(WEASEL_WORDS) |->
        LET word    == Spell(WEASEL_WORDS[w])
            matches == MatchAllWords(WordPattern(word), text, 0)
        IN  IF matches = <<>> THEN <<>>
            ELSE LET firstMatchIndex == matches[1].index
                 IN  <<Found(Occ("weasel", WEASEL_WORDS[w], Len(matches), FALSE),
                             firstMatchIndex, matches[1].end,
                             getContext(text, firstMatchIndex,
                                        firstMatchIndex + Len(word), ContextChars))>>])

\* lines 121-126
ScanPhrases(text) ==
    Concat([p \in 1..Len(HIGH_RISK_PHRASES) |->
        LET phrase == Spell(HIGH_RISK_PHRASES[p])
            m      == ExecAll(fuzzyPattern(phrase), text, 0)
        IN  [i \in 1..Len(m) |->
                Found(Occ("phrase", HIGH_RISK_PHRASES[p], 0,
                          toLowerCase(slice(text, m[i].index, m[i].end)) = phrase),
                      m[i].index, m[i].end,
                      getContext(text, m[i].index, m[i].end, ContextChars))]])

\* lines 345-350: the provisions one of whose keywords the text matches
ScanProvisions(text) ==
    Concat([p \in 1..Len(requiredProvisions) |->
        IF \E k \in 1..Len(requiredProvisions[p].keywords) :
               test(fuzzyPattern(Spell(requiredProvisions[p].keywords[k])), text)
        THEN <<Found(Occ("keyword", requiredProvisions[p].id, 0, FALSE), -1, -1, <<>>)>>
        ELSE <<>>])

\* lines 382-387
ScanRegulatory(text) ==
    Concat([r \in 1..Len(regulatoryKeywords) |->
        LET m == ExecAll(fuzzyPattern(Spell(regulatoryKeywords[r].term)), text, 0)
        IN  [i \in 1..Len(m) |->
                Found(Occ("regulatory", regulatoryKeywords[r].term, 0, FALSE),
                      m[i].index, m[i].end,
                      getContext(text, m[i].index, m[i].end, ContextChars))]])

\* the rules whose patterns are built from the literals of the catalogs, by
\* their numbers in lines 484-495
ScanRules == <<1, 2, 3, 9, 10>>

\* rule n on a text of characters: the rule's findings on what its patterns find,
\* each with its span and its excerpt
ScanCheck(n, text) ==
    CASE n = 1 ->
           LET found == ScanOffshore(text)
               fl    == checkOffshoreJurisdictions(OccsOf(found), <<>>)
           IN  [i \in 1..Len(fl) |-> Scanned(fl[i], found[i])]
      [] n = 2 ->
           LET found == ScanWeasel(text)
               fl    == checkWeaselWords(OccsOf(found), <<>>)
               hit   == SelectSeq(found, LAMBDA f : f.occ.n > 3)
           IN  [i \in 1..Len(fl) |-> Scanned(fl[i], hit[i])]
      [] n = 3 ->
           LET found == ScanPhrases(text)
               fl    == checkHighRiskPhrases(OccsOf(found), <<>>)
           IN  [i \in 1..Len(fl) |-> Scanned(fl[i], found[i])]
      [] n = 9 ->
           LET fl == checkRequiredProvisions(OccsOf(ScanProvisions(text)), <<>>)
           IN  [i \in 1..Len(fl) |-> Scanned(fl[i], Found(<<>>, -1, -1, <<>>))]
      [] n = 10 ->
           LET found == ScanRegulatory(text)
               fl    == checkRegulatoryRisks(OccsOf(found), <<>>)
           IN  [i \in 1..Len(fl) |-> Scanned(fl[i], found[i])]

Spaces(n) == [i \in 1..n |-> " "]

\* 'best efforts' written with more whitespace between its words than
\* getContext's `chars`
WideBestEfforts ==
    <<"b", "e", "s", "t">> \o Spaces(ContextChars + 2)
        \o <<"e", "f", "f", "o", "r", "t", "s">>

ScanPieces ==
    {WideBestEfforts,
     <<" ", "t", "h", "e", " ", "g", "o", "v", "e", "r", "n", "i", "n", "g", " ",
       "l", "a", "w", " ", "o", "f", " ", "B", "e", "r", "m", "u", "d", "a", " ",
       "a", "p", "p", "l", "i", "e", "s", " ", "t", "o", " ", "a", "l", "l", " ">>,
     <<"C", "a", "y", "m", "a", "n">>,
     <<"C", " ", "a", " ", "y", " ", "m", " ", "a", " ", "n">>,
     <<"C", "a", "y", "m", "a", "n", " ", "I", "s", "l", "a", "n", "d", "s">>,
     <<" ", "g", "o", "v", "e", "r", "n", "i", "n", "g", " ", "l", "a", "w", " ">>,
     <<" ", "i", "s", " ", "c", "o", "n", "f", "i", "d", "e", "n", "t", "i", "a",
       "l", " ">>,
     <<" ", "y", "o", "u", " ", "a", "n", "d", " ", "I", " ", "a", "g", "r", "e",
       "e", " ">>,
     <<" ", "n", "o", "n", "-", "d", "i", "s", "c", "l", "o", "s", "u", "r", "e", " ">>,
     <<" ", "b", "e", "s", "t", " ", "e", "f", "f", "o", "r", "t", "s", ",", " ",
       "b", "e", "s", "t", " ", "e", "f", "f", "o", "r", "t", "s", ",", " ", "b",
       "e", "s", "t", " ", "e", "f", "f", "o", "r", "t", "s", " ">>,
     <<" ", "t", "o", " ", "b", "e", " ", "p", "r", "o", "v", "i", "d", "e", "d", " ">>,
     <<" ", "F", "E", "R", "C", " ">>,
     <<" ", "x", " ">>}

RECURSIVE ScanTextsOf(_)
ScanTextsOf(n) ==
    IF n = 0 THEN {<<>>}
    ELSE ScanTextsOf(n - 1) \cup {t \o q : t \in ScanTextsOf(n - 1), q \in ScanPieces}

ScanTexts == ScanTextsOf(MaxPieces)

ScanInit ==
    /\ tText \in ScanTexts
    /\ tPc = "scanning"
    /\ tN = 1
    /\ tFlags = <<>>
    /\ ChunkIdle /\ LLMIdle /\ RulesIdle /\ IdsIdle /\ FuzzyIdle

\* one of the calls of lines 484-486 and 492-493 runs to its end
ScanRule ==
    /\ tPc = "scanning"
    /\ tN <= Len(ScanRules)
    /\ tFlags' = tFlags \o ScanCheck(ScanRules[tN], tText)
    /\ tN' = tN + 1
    /\ UNCHANGED <<tText, tPc>>
    /\ UNCHANGED <<cvars, lvars, rvars, ivars, fvars>>

ScanReturn ==
    /\ tPc = "scanning"
    /\ tN = Len(ScanRules) + 1
    /\ tPc' = "done"
    /\ UNCHANGED <<tText, tN, tFlags>>
    /\ UNCHANGED <<cvars, lvars, rvars, ivars, fvars>>

ScanNext == ScanRule \/ ScanReturn

SpecScan == ScanInit /\ [][ScanNext]_vars

(***************************************************************************)
(* Properties of the pattern-matching rules                                *)
(***************************************************************************)
\* the literal occurs in the text, in any case
Occurs(text, term) == includes(toLowerCase(text), toLowerCase(Spell(term)))

ConfidentialityFindings ==
    SelectSeq(tFlags, LAMBDA f : f.flag.title = "Missing Confidentiality Provision")

\* C12: for every text in which none of the confidentiality synonyms
\* (confidential, non-disclosure, ndia, proprietary information) occurs, exactly
\* one finding titled 'Missing Confidentiality Provision' is returned, and it has
\* severity CRITICAL and score 10. (No rule but checkRequiredProvisions gives a
\* finding of this title.)
C12_MissingConfidentiality ==
    (/\ tPc = "done"
     /\ \A term \in {"confidential", "non-disclosure", "ndia", "proprietary information"} :
            ~Occurs(tText, term))
    => /\ Len(ConfidentialityFindings) = 1
       /\ ConfidentialityFindings[1].flag.severity = "CRITICAL"
       /\ ConfidentialityFindings[1].flag.score = 10

Cayman == <<"C", "a", "y", "m", "a", "n">>

SpacedCayman == <<"C", " ", "a", " ", "y", " ", "m", " ", "a", " ", "n">>

\* the writing `word` stands in the text at a place where no 'Cayman Islands'
\* (in any spacing) starts
StandsAlone(text, word) ==
    \E i \in 0..(Len(text) - Len(word)) :
        /\ slice(text, i, i + Len(word)) = word
        /\ MatchAt(fuzzyPattern(Spell("Cayman Islands")), 1, text, i) = -1

\* C14: a text containing the literal word 'Cayman' (not followed by 'Islands')
\* and a text containing the letter-spaced 'C a y m a n' each get at least one
\* finding of the offshore rule, of category 'jurisdiction', CRITICAL with score 9
\* if its excerpt mentions governing law, arbitration or dispute resolution, and
\* HIGH with score 7 if not.
C14_CaymanBothForms ==
    (tPc = "done" /\ (StandsAlone(tText, Cayman) \/ StandsAlone(tText, SpacedCayman)))
    => \E k \in 1..Len(tFlags) :
          /\ tFlags[k].flag.category = "jurisdiction"
          /\ IF isGoverningLaw(tFlags[k].location)
             THEN tFlags[k].flag.severity = "CRITICAL" /\ tFlags[k].flag.score = 9
             ELSE tFlags[k].flag.severity = "HIGH" /\ tFlags[k].flag.score = 7

\* the location without the '...' put before and after the excerpt
Core(location) ==
    LET a == IF Len(location) >= 3 /\ SubSeq(location, 1, 3) = Ellipsis
             THEN SubSeq(location, 4, Len(location)) ELSE location
    IN  IF Len(a) >= 3 /\ SubSeq(a, Len(a) - 2, Len(a)) = Ellipsis
        THEN SubSeq(a, 1, Len(a) - 3) ELSE a

\* str stands in the text at a place where it covers the span [index, end)
Covers(text, str, index, end) ==
    \E p \in 0..(Len(text) - Len(str)) :
        /\ slice(text, p, p + Len(str)) = str
        /\ p <= index
        /\ end <= p + Len(str)

\* C15: for every finding whose location comes from getContext, the location
\* without its leading and trailing '...' is a contiguous piece of the text that
\* contains the whole matched span; also for the vague-language rule when a
\* two-word term is matched with more whitespace between its words.
C15_ExcerptContainsMatch ==
    \A k \in 1..Len(tFlags) :
        tFlags[k].flag.location = "context" =>
            Covers(tText, Core(tFlags[k].location), tFlags[k].index, tFlags[k].end)

(***************************************************************************)
(* fuzzyPattern on the terms of the catalogs                               *)
(***************************************************************************)
Range(seq) == {seq[i] : i \in 1..Len(seq)}

\* the literals fuzzyPattern is called on (lines 62, 122, 348, 383)
FuzzyTerms ==
    Range(OFFSHORE_JURISDICTIONS) \cup Range(HIGH_RISK_PHRASES)
    \cup UNION {Range(requiredProvisions[p].keywords) : p \in 1..Len(requiredProvisions)}
    \cup {regulatoryKeywords[r].term : r \in 1..Len(regulatoryKeywords)}

\* a text writes the term as it stands, in lower case, or with a blank between
\* any two of its characters
Forms == {"normal", "lowercase", "spaced"}

Written(term, form) ==
    CASE form = "normal" -> term
      [] form = "lowercase" -> toLowerCase(term)
      [] form = "spaced" ->
           Concat([i \in 1..Len(term) |->
               IF i < Len(term) THEN <<term[i], " ">> ELSE <<term[i]>>])

FuzzyInit ==
    /\ fTerm \in FuzzyTerms
    /\ fForm \in Forms
    /\ fPc = "built"
    /\ fMatched = FALSE
    /\ ChunkIdle /\ LLMIdle /\ RulesIdle /\ IdsIdle /\ ScanIdle

\* new RegExp(fuzzyPattern(term), 'i').test(text)
TestTerm ==
    /\ fPc = "built"
    /\ fMatched' = test(fuzzyPattern(Spell(fTerm)), Written(Spell(fTerm), fForm))
    /\ fPc' = "tested"
    /\ UNCHANGED <<fTerm, fForm>>
    /\ UNCHANGED <<cvars, lvars, rvars, ivars, tvars>>

FuzzyNext == TestTerm

SpecFuzzy == FuzzyInit /\ [][FuzzyNext]_vars

\* C17: for every literal term of the catalogs (jurisdictions, deferral phrases,
\* required-provision keywords, regulatory keywords), the matcher built by
\* fuzzyPattern(term), applied ignoring case, matches the term as it is normally
\* written (also a term with a non-alphanumeric character, as 'non-disclosure')
\* and the term with whitespace inserted between its characters.
C17_FuzzyMatchesTerm == fPc = "tested" => fMatched

(***************************************************************************)
(* generateId (rule-engine.ts lines 45-47, LLM analyzer lines 53-55)       *)
(***************************************************************************)
\* Bounds: the clock runs from 0 to MaxMs; MaxIds findings are created;
\* IdSuffixLen stands for the 9 of substr(2, 9) on random numbers of at most
\* MaxRandomDigits base-36 digits
MaxMs == 1
MaxIds == 3
IdSuffixLen == 2
MaxRandomDigits == 3

\* Math.random(): a number of [0, 1), as the digits of its base-36 fraction
\* (none for 0)
RandomNumbers == UNION {[1..n -> {"a", "b"}] : n \in 0..MaxRandomDigits}

\* Number.prototype.toString(36) and String.prototype.substr
toString36(random) == IF random = <<>> THEN <<"0">> ELSE <<"0", ".">> \o random

substr(str, from, length) == SubSeq(str, from + 1, Min(Len(str), from + length))

\* `${prefix}_${Date.now()}_${Math.random().toString(36).substr(2, 9)}`
generateId(prefix, ms, random) ==
    [prefix |-> prefix, ms |-> ms, suffix |-> substr(toString36(random), 2, IdSuffixLen)]

IdsInit ==
    /\ now = 0
    /\ ids = <<>>
    /\ ChunkIdle /\ LLMIdle /\ RulesIdle /\ ScanIdle /\ FuzzyIdle

\* a millisecond passes
Tick ==
    /\ now < MaxMs
    /\ now' = now + 1
    /\ UNCHANGED ids
    /\ UNCHANGED <<cvars, lvars, rvars, tvars, fvars>>

\* a flags.push of a rule: id: generateId()
RuleFindingCreated ==
    /\ Len(ids) < MaxIds
    /\ \E random \in RandomNumbers : ids' = Append(ids, generateId("rule", now, random))
    /\ UNCHANGED now
    /\ UNCHANGED <<cvars, lvars, rvars, tvars, fvars>>

\* the flags.push of analyzeChunk: id: generateId()
LLMFindingCreated ==
    /\ Len(ids) < MaxIds
    /\ \E random \in RandomNumbers : ids' = Append(ids, generateId("llm", now, random))
    /\ UNCHANGED now
    /\ UNCHANGED <<cvars, lvars, rvars, tvars, fvars>>

IdsNext == Tick \/ RuleFindingCreated \/ LLMFindingCreated

SpecIds == IdsInit /\ [][IdsNext]_vars

\* C16: no two findings created in the process have the same id, within one
\* result and across runs, also when they are created within one millisecond.
C16_UniqueIds ==
    \A i, j \in 1..Len(ids) : i # j => ids[i] # ids[j]

====
